---- MODULE Spec2Model ----
(***************************************************************************)
(* Model of package httputil (iam-kevin/go-httputil): the error value      *)
(* httperror, the assertion API, the response writer helpers and the       *)
(* recovering middleware MiddlewareHTTPAssertionRecoverer.                  *)
(*                                                                         *)
(* One request is served.  The wrapped handler is the environment: at each *)
(* step it calls one function of the package, panics with a value of its   *)
(* own, or returns.  A panic ends the handler; the middleware's deferred    *)
(* function then runs as one step.                                         *)
(*                                                                         *)
(* Go values are records with a field "kind".  A *httperror and a          *)
(* httperror are not told apart: both satisfy error and HttpError, which   *)
(* is all the modelled type switches look at.  panic(nil) is left out      *)
(* (what recover() returns for it depends on the Go release).              *)
(*                                                                         *)
(* Where a source file holds more than one version of the package, the     *)
(* first one (the documented one) is modelled; the later ones are named in  *)
(* comments where they differ.                                             *)
(***************************************************************************)
EXTENDS Integers, Sequences, FiniteSets, TLC

VARIABLES
    state,     \* where the request is: "Idle", "Running", "Panicking",
               \* "CompletedNormally", "ResponseSent", "Rethrown" or
               \* "RecoverPanicked" (the deferred function itself panicked)
    sink,      \* the writes made on the http.ResponseWriter, in order
    log,       \* the lines given to log.Printf and slog.Error, in order
    panicVal,  \* the value of the handler's panic, what recover() returns
    escaped,   \* the value of the panic that left the middleware
    cancels,   \* number of calls of cancel()
    scopes,    \* number of scopes made by context.WithCancel
    steps,     \* number of statements the handler has executed
    lastCall,  \* the handler's last statement: function, condition, status, argument
    herr       \* the handler's local holding the result of NewError

vars == <<state, sink, log, panicVal, escaped, cancels, scopes, steps,
          lastCall, herr>>

\* Bound on the number of statements the wrapped handler executes.
MaxSteps == 2

\* Messages the caller's strings and errors carry.
Msgs == {"user not found", "db down"}

\* Status codes the caller chooses (valid HTTP status codes).
Statuses == {404, 499, 500, 503}

StatusInternalServerError == 500
StatusOK == 200

----------------------------------------------------------------------------
\* Values

Nil == [kind |-> "nil"]
NoPanic == [kind |-> "none"]
Unset == [kind |-> "unset"]

\* A value that is neither a string nor an error (an int, a struct, ...).
Other == [kind |-> "other"]

\* The runtime error of a nil dereference.
RuntimeError == [kind |-> "runtimeError"]

\* errors.New(text)
New(text) == [kind |-> "error", origin |-> "New", msg |-> text]

Strings == {[kind |-> "string", text |-> m] : m \in Msgs}

\* Error values the caller brings along.
CallerErrors == {[kind |-> "error", origin |-> "caller", msg |-> m] : m \in Msgs}

\* type httperror struct { status int; err error }
httperror(status, err) == [kind |-> "httperror", status |-> status, err |-> err]

\* v satisfies the interface error.
IsError(v) == v.kind \in {"error", "httperror", "runtimeError"}

\* v satisfies the interface HttpError (Status, Error, Cause).
IsHttpError(v) == v.kind = "httperror"

\* func (he httperror) Status() int
Status(he) == he.status

\* Cause() as the other version of the type has it: nil unless he.err has a cause.
Cause_Variant(he) == IF he.err.kind = "httperror" THEN he.err ELSE Nil

\* func (he httperror) Cause() error
Cause(he) == he.err

RECURSIVE ErrorPanics(_)
\* e.Error() dereferences nil: e is nil, or a httperror whose err does.
ErrorPanics(e) ==
    CASE e.kind = "nil" -> TRUE
      [] e.kind = "httperror" -> ErrorPanics(e.err)
      [] OTHER -> FALSE

RECURSIVE ErrorMethod(_)
\* e.Error(); for a httperror, he.err.Error().
ErrorMethod(e) ==
    CASE e.kind = "httperror" -> ErrorMethod(e.err)
      [] e.kind = "runtimeError" -> "invalid memory address or nil pointer dereference"
      [] OTHER -> e.msg

\* func NewError(status int, err error) error
NewError(status, err) == httperror(status, err)

\* func toErr(err interface{}) error
toErr(err) ==
    CASE err.kind = "string" -> New(err.text)
      [] IsError(err) -> err
      [] OTHER -> New("missing error details")

----------------------------------------------------------------------------
\* Response bodies and log lines

Envelope(ok, message) == [ok |-> ok, message |-> message]
OKBody == [ok |-> TRUE]
\* WriteHeader was called and the handler panicked before the body.
NoBody == [none |-> TRUE]

Response(status, body) == [status |-> status, body |-> body]

\* log.Printf("AssertionError(HTTP: %v): %s", status, err)
AssertionLog(status, err) == [src |-> "AssertionError", status |-> status, err |-> err]
\* slog.Error("failed", "status", statusCode, "error", err)
FailedLog(status, err) == [src |-> "failed", status |-> status, err |-> err]
\* slog.Error("internal error: " + err.Error(), ...)
InternalLog(err) == [src |-> "internal error", status |-> 0, err |-> err]
\* slog.Error("unexpected panic", "error", r)
UnexpectedLog(r) == [src |-> "unexpected panic", status |-> 0, err |-> r]

Outcome(w, lg, p) == [w |-> w, log |-> lg, panic |-> p]

----------------------------------------------------------------------------
\* Response writer helpers: each yields the sink and the log after the call
\* and the panic the call ends in (NoPanic when it returns).

ErrorWithStatus_Generic(w, lg, statusCode, err) ==
    Outcome(Append(w, Response(statusCode, Envelope(FALSE, "internal server error"))),
            Append(lg, FailedLog(statusCode, err)), NoPanic)

\* func ErrorWithStatus(w http.ResponseWriter, statusCode int, err interface{})
ErrorWithStatus(w, lg, statusCode, err) ==
    LET lg1 == Append(lg, FailedLog(statusCode, err))
        err_ == CASE IsError(err) -> err
                  [] err.kind = "string" -> New(err.text)
                  [] err.kind = "httperror" -> Cause(err)
                  [] OTHER -> New("unknown error occured")
    IN  IF ErrorPanics(err_)
        THEN Outcome(Append(w, Response(statusCode, NoBody)), lg1, RuntimeError)
        ELSE Outcome(Append(w, Response(statusCode, Envelope(FALSE, ErrorMethod(err_)))),
                     lg1, NoPanic)

\* func Error(w http.ResponseWriter, err interface{})
Error(w, lg, err) == ErrorWithStatus(w, lg, StatusInternalServerError, err)

\* func JsonWithStatus(w http.ResponseWriter, statusCode int, data interface{})
JsonWithStatus(w, lg, statusCode, data) ==
    Outcome(Append(w, Response(statusCode, data)), lg, NoPanic)

\* func Json(w http.ResponseWriter, data interface{})
Json(w, lg, data) == JsonWithStatus(w, lg, StatusOK, data)

\* func MessageWithStatus(w http.ResponseWriter, statusCode int, message string)
MessageWithStatus(w, lg, statusCode, message) ==
    JsonWithStatus(w, lg, statusCode, Envelope(TRUE, message))

Message_ErrorStatus(w, lg, message) ==
    JsonWithStatus(w, lg, StatusInternalServerError, Envelope(TRUE, message))

\* func Message(w http.ResponseWriter, message string)
Message(w, lg, message) == JsonWithStatus(w, lg, StatusOK, Envelope(TRUE, message))

\* func OK(w http.ResponseWriter)
OK(w, lg) == JsonWithStatus(w, lg, StatusOK, OKBody)

\* func InternalErrorWithStatus(w http.ResponseWriter, status int, err error)
InternalErrorWithStatus(w, lg, status, err) ==
    IF ErrorPanics(err)
    THEN Outcome(w, lg, RuntimeError)
    ELSE Outcome(Append(w, Response(status, Envelope(FALSE, "internal server error"))),
                 Append(lg, InternalLog(err)), NoPanic)

\* func InternalError(w http.ResponseWriter, err error)
InternalError(w, lg, err) == InternalErrorWithStatus(w, lg, StatusInternalServerError, err)

----------------------------------------------------------------------------
\* Assertion API: each yields the log after the call and the panic it raises
\* (NoPanic when it returns to the caller).

AOutcome(lg, p) == [log |-> lg, panic |-> p]

AssertWithStatus_Returns(lg, condition, status, err) ==
    IF ~condition
    THEN AOutcome(Append(lg, AssertionLog(status, err)), NoPanic)
    ELSE AOutcome(lg, NoPanic)

AssertWithStatus_LogsAlways(lg, condition, status, err) ==
    IF ~condition
    THEN AOutcome(Append(lg, AssertionLog(status, err)), httperror(status, toErr(err)))
    ELSE AOutcome(Append(lg, AssertionLog(status, err)), NoPanic)

\* func AssertWithStatus(condition bool, status int, err interface{})
AssertWithStatus(lg, condition, status, err) ==
    IF ~condition
    THEN AOutcome(Append(lg, AssertionLog(status, err)), httperror(status, toErr(err)))
    ELSE AOutcome(lg, NoPanic)

\* func Assert(condition bool, err interface{})
Assert_(lg, condition, err) ==
    AssertWithStatus(lg, condition, StatusInternalServerError, err)

\* func AssertErrorIsNilWithStatus(status int, err interface{})
AssertErrorIsNilWithStatus(lg, status, err) ==
    IF err # Nil
    THEN AOutcome(Append(lg, AssertionLog(status, err)), httperror(status, toErr(err)))
    ELSE AOutcome(lg, NoPanic)

\* func AssertErrorIsNil(err error)
AssertErrorIsNil(lg, err) ==
    AssertErrorIsNilWithStatus(lg, StatusInternalServerError, err)

----------------------------------------------------------------------------
\* The deferred function of MiddlewareHTTPAssertionRecoverer, run with
\* r = recover() # nil.  It yields the sink and log it leaves, the number of
\* cancel() calls it made, the panic that leaves the middleware and the
\* state the request ends in.

ROutcome(w, lg, c, esc, st) ==
    [w |-> w, log |-> lg, cancels |-> c, escaped |-> esc, state |-> st]

Classified(out) ==
    IF out.panic = NoPanic
    THEN ROutcome(out.w, out.log, 1, NoPanic, "ResponseSent")
    ELSE ROutcome(out.w, out.log, 0, out.panic, "RecoverPanicked")

Recoverer_Threshold(w, lg, r) ==
    IF IsHttpError(r)
    THEN IF Status(r) > StatusInternalServerError
         THEN Classified(InternalErrorWithStatus(w, lg, Status(r), r))
         ELSE Classified(ErrorWithStatus(w, lg, Status(r), r))
    ELSE ROutcome(w, Append(lg, UnexpectedLog(r)), 0, r, "Rethrown")

\* The other version of the middleware answers every panic (lines 284-313).
Recoverer_ConvertsUnknown(w, lg, r) ==
    IF IsHttpError(r)
    THEN IF Status(r) >= StatusInternalServerError
         THEN Classified(InternalErrorWithStatus(w, lg, Status(r), r))
         ELSE Classified(ErrorWithStatus(w, lg, Status(r), r))
    ELSE Classified(InternalError(w, lg, IF IsError(r) THEN r ELSE New("unknown error object")))

\* defer func() { if r := recover(); r != nil { ... } }()
Recoverer(w, lg, r) ==
    IF IsHttpError(r)
    THEN IF Status(r) >= StatusInternalServerError
         THEN Classified(InternalErrorWithStatus(w, lg, Status(r), r))
         ELSE Classified(ErrorWithStatus(w, lg, Status(r), r))
    ELSE ROutcome(w, Append(lg, UnexpectedLog(r)), 0, r, "Rethrown")

----------------------------------------------------------------------------
\* The request: the handler's statements and the middleware's steps

\* What the handler may pass where an interface{} is accepted.
ErrLikes == Strings \cup CallerErrors \cup {Nil, Other}
                \cup (IF herr = Unset THEN {} ELSE {herr})

\* What the handler may pass where an error is accepted.
ErrorArgs == CallerErrors \cup {Nil} \cup (IF herr = Unset THEN {} ELSE {herr})

\* What the handler may pass to panic() itself.
PanicArgs == Strings \cup CallerErrors \cup {Other}
                \cup (IF herr = Unset THEN {} ELSE {herr})

\* Data the handler sends with Json.
Payloads == {[user |-> "John"]}

Call(op, cond, status, arg) == [op |-> op, cond |-> cond, status |-> status, arg |-> arg]

AssertOps == {"Assert", "AssertWithStatus"}

Init ==
    /\ state = "Idle"
    /\ sink = <<>>
    /\ log = <<>>
    /\ panicVal = NoPanic
    /\ escaped = NoPanic
    /\ cancels = 0
    /\ scopes = 0
    /\ steps = 0
    /\ lastCall = Call("none", TRUE, 0, Nil)
    /\ herr = Unset

\* _, cancel := context.WithCancel(r.Context()); next.ServeHTTP(w, r) begins
Serve ==
    /\ state = "Idle"
    /\ state' = "Running"
    /\ scopes' = scopes + 1
    /\ UNCHANGED <<sink, log, panicVal, escaped, cancels, steps, lastCall, herr>>

CanStep == state = "Running" /\ steps < MaxSteps

\* The handler called a function of the assertion API.
Asserted(out, call) ==
    /\ log' = out.log
    /\ panicVal' = out.panic
    /\ state' = IF out.panic = NoPanic THEN "Running" ELSE "Panicking"
    /\ steps' = steps + 1
    /\ lastCall' = call
    /\ UNCHANGED <<sink, escaped, cancels, scopes, herr>>

\* The handler called a response writer helper.
Wrote(out, call) ==
    /\ sink' = out.w
    /\ log' = out.log
    /\ panicVal' = out.panic
    /\ state' = IF out.panic = NoPanic THEN "Running" ELSE "Panicking"
    /\ steps' = steps + 1
    /\ lastCall' = call
    /\ UNCHANGED <<escaped, cancels, scopes, herr>>

CallAssert ==
    /\ CanStep
    /\ \E c \in BOOLEAN, e \in ErrLikes :
          Asserted(Assert_(log, c, e), Call("Assert", c, StatusInternalServerError, e))

CallAssertWithStatus ==
    /\ CanStep
    /\ \E c \in BOOLEAN, s \in Statuses, e \in ErrLikes :
          Asserted(AssertWithStatus(log, c, s, e), Call("AssertWithStatus", c, s, e))

CallAssertErrorIsNil ==
    /\ CanStep
    /\ \E e \in ErrorArgs :
          Asserted(AssertErrorIsNil(log, e),
                   Call("AssertErrorIsNil", TRUE, StatusInternalServerError, e))

CallAssertErrorIsNilWithStatus ==
    /\ CanStep
    /\ \E s \in Statuses, e \in ErrLikes :
          Asserted(AssertErrorIsNilWithStatus(log, s, e),
                   Call("AssertErrorIsNilWithStatus", TRUE, s, e))

CallErrorWithStatus ==
    /\ CanStep
    /\ \E s \in Statuses, e \in ErrLikes :
          Wrote(ErrorWithStatus(sink, log, s, e), Call("ErrorWithStatus", TRUE, s, e))

CallError ==
    /\ CanStep
    /\ \E e \in ErrLikes :
          Wrote(Error(sink, log, e), Call("Error", TRUE, StatusInternalServerError, e))

CallInternalErrorWithStatus ==
    /\ CanStep
    /\ \E s \in Statuses, e \in ErrorArgs :
          Wrote(InternalErrorWithStatus(sink, log, s, e),
                Call("InternalErrorWithStatus", TRUE, s, e))

CallInternalError ==
    /\ CanStep
    /\ \E e \in ErrorArgs :
          Wrote(InternalError(sink, log, e),
                Call("InternalError", TRUE, StatusInternalServerError, e))

CallJsonWithStatus ==
    /\ CanStep
    /\ \E s \in Statuses \cup {StatusOK}, d \in Payloads :
          Wrote(JsonWithStatus(sink, log, s, d), Call("JsonWithStatus", TRUE, s, Other))

CallJson ==
    /\ CanStep
    /\ \E d \in Payloads :
          Wrote(Json(sink, log, d), Call("Json", TRUE, StatusOK, Other))

CallMessageWithStatus ==
    /\ CanStep
    /\ \E s \in Statuses \cup {StatusOK}, m \in Strings :
          Wrote(MessageWithStatus(sink, log, s, m.text), Call("MessageWithStatus", TRUE, s, m))

CallMessage ==
    /\ CanStep
    /\ \E m \in Strings :
          Wrote(Message(sink, log, m.text), Call("Message", TRUE, StatusOK, m))

CallOK ==
    /\ CanStep
    /\ Wrote(OK(sink, log), Call("OK", TRUE, StatusOK, Nil))

\* herr := NewError(status, err)
CallNewError ==
    /\ CanStep
    /\ \E s \in Statuses, e \in CallerErrors \cup {Nil} :
          /\ herr' = NewError(s, e)
          /\ lastCall' = Call("NewError", TRUE, s, e)
    /\ steps' = steps + 1
    /\ UNCHANGED <<state, sink, log, panicVal, escaped, cancels, scopes>>

\* panic(v) in the handler's own code
HandlerPanic ==
    /\ CanStep
    /\ \E v \in PanicArgs :
          /\ panicVal' = v
          /\ lastCall' = Call("panic", TRUE, 0, v)
    /\ state' = "Panicking"
    /\ steps' = steps + 1
    /\ UNCHANGED <<sink, log, escaped, cancels, scopes, herr>>

\* next.ServeHTTP returns; the deferred function finds recover() == nil
HandlerReturn ==
    /\ state = "Running"
    /\ state' = "CompletedNormally"
    /\ UNCHANGED <<sink, log, panicVal, escaped, cancels, scopes, steps, lastCall, herr>>

\* the deferred function with r := recover(), r != nil
Recover ==
    /\ state = "Panicking"
    /\ LET out == Recoverer(sink, log, panicVal)
       IN  /\ sink' = out.w
           /\ log' = out.log
           /\ cancels' = cancels + out.cancels
           /\ escaped' = out.escaped
           /\ state' = out.state
    /\ UNCHANGED <<panicVal, scopes, steps, lastCall, herr>>

Next ==
    \/ Serve
    \/ CallAssert
    \/ CallAssertWithStatus
    \/ CallAssertErrorIsNil
    \/ CallAssertErrorIsNilWithStatus
    \/ CallErrorWithStatus
    \/ CallError
    \/ CallInternalErrorWithStatus
    \/ CallInternalError
    \/ CallJsonWithStatus
    \/ CallJson
    \/ CallMessageWithStatus
    \/ CallMessage
    \/ CallOK
    \/ CallNewError
    \/ HandlerPanic
    \/ HandlerReturn
    \/ Recover

Spec == Init /\ [][Next]_vars

----------------------------------------------------------------------------
\* Properties

\* The handler statement just executed.
Stepped == steps' = steps + 1

\* The deferred function is about to run on a HttpError whose message exists.
Caught == state = "Panicking" /\ IsHttpError(panicVal) /\ ~ErrorPanics(Cause(panicVal))

LastWrite == sink[Len(sink)]

\* C1: a request served through the middleware carries at most one response
\* on its sink; where the boundary answered, its response is the only write.
C1_AtMostOneResponse ==
    state = "ResponseSent" => Len(sink) <= 1

\* C2: the cancellation scope the middleware created is released exactly once
\* on every exit path: normal completion, answered HttpError, re-raised panic.
C2_CancelExactlyOnce ==
    state \in {"CompletedNormally", "ResponseSent", "Rethrown"} => cancels = scopes

\* C3: a panic whose value is not a HttpError is logged, leaves the sink as it
\* was and is raised again with the same value.
C3_UnknownPanicRethrown ==
    [][(state = "Panicking" /\ ~IsHttpError(panicVal)) =>
          /\ state' = "Rethrown"
          /\ escaped' = panicVal
          /\ sink' = sink
          /\ log' = Append(log, UnexpectedLog(panicVal))]_vars

C3_Witness ==
    /\ state = "Rethrown"
    /\ lastCall.op = "panic"
    /\ escaped \in CallerErrors
    /\ escaped = panicVal

\* C4: a HttpError with status s < 500 and cause X is answered by the boundary
\* with one response: status s, envelope {ok: false, message: X.Error()}.
C4_ClientErrorAnswered ==
    [][(Caught /\ Status(panicVal) < 500) =>
          /\ sink' = Append(sink, Response(Status(panicVal),
                                Envelope(FALSE, ErrorMethod(Cause(panicVal)))))
          /\ state' = "ResponseSent"]_vars

C4_Witness ==
    /\ state = "ResponseSent"
    /\ Status(panicVal) = 404
    /\ Cause(panicVal) \in CallerErrors
    /\ sink = <<Response(404, Envelope(FALSE, "user not found"))>>

\* C5: a HttpError with status s >= 500 is answered with status s and the
\* envelope {ok: false, message: "internal server error"} whatever its cause
\* X is; X reaches the log only.
C5_InternalErrorHidden ==
    [][(Caught /\ Status(panicVal) >= 500) =>
          /\ sink' = Append(sink, Response(Status(panicVal),
                                Envelope(FALSE, "internal server error")))
          /\ log' = Append(log, InternalLog(panicVal))
          /\ state' = "ResponseSent"]_vars

C5_Witness ==
    /\ state = "ResponseSent"
    /\ Status(panicVal) = 500
    /\ ErrorMethod(panicVal) = "db down"
    /\ sink = <<Response(500, Envelope(FALSE, "internal server error"))>>
    /\ log[Len(log)] = InternalLog(panicVal)

\* C6: Assert(false, e) and AssertWithStatus(false, s, e) panic with a
\* HttpError of status s (500 for Assert), and no handler statement runs
\* after a panic.
C6_FailedAssertAbandons ==
    [][/\ (Stepped /\ lastCall'.op \in AssertOps /\ ~lastCall'.cond) =>
             /\ state' = "Panicking"
             /\ IsHttpError(panicVal')
             /\ Status(panicVal') = IF lastCall'.op = "Assert" THEN 500 ELSE lastCall'.status
       /\ (state = "Panicking" => steps' = steps /\ lastCall' = lastCall)]_vars

C6_Witness ==
    /\ state = "Panicking"
    /\ lastCall.op = "AssertWithStatus"
    /\ ~lastCall.cond
    /\ lastCall.status = 404
    /\ Status(panicVal) = 404

\* C7: Assert and AssertWithStatus with a true condition do nothing: no log
\* line, no panic, no response, and the handler goes on.
C7_TrueAssertNoOp ==
    [][(Stepped /\ lastCall'.op \in AssertOps /\ lastCall'.cond) =>
          /\ log' = log
          /\ sink' = sink
          /\ panicVal' = NoPanic
          /\ state' = "Running"]_vars

C7_Witness ==
    /\ state = "Running"
    /\ lastCall.op \in AssertOps
    /\ lastCall.cond
    /\ lastCall.arg \in Strings
    /\ log = <<>>

C9_CauseNeverNil ==
    /\ herr # Unset => Cause(herr) # Nil
    /\ IsHttpError(panicVal) => Cause(panicVal) # Nil
    /\ (lastCall.op \in AssertOps /\ ~lastCall.cond
            /\ lastCall.arg.kind \in {"nil", "other"}) =>
          ErrorMethod(Cause(panicVal)) = "missing error details"

\* C10: ErrorWithStatus returns on every input and writes, at the given
\* status, the envelope whose message is that of toErr of the same input.
C10_ErrorWithStatusAsToErr ==
    lastCall.op = "ErrorWithStatus" =>
        /\ state \in {"Running", "CompletedNormally"}
        /\ Len(sink) >= 1
        /\ LastWrite = Response(lastCall.status,
                                Envelope(FALSE, ErrorMethod(toErr(lastCall.arg))))


BareOps == {"Error", "InternalError", "Json", "Message", "OK"}
WriterOps == BareOps \cup {"ErrorWithStatus", "InternalErrorWithStatus",
                           "JsonWithStatus", "MessageWithStatus"}

\* The status the contract of the helper names for the call c.
ContractStatus(c) ==
    CASE c.op \in {"Error", "InternalError"} -> 500
      [] c.op \in {"Json", "Message", "OK"} -> 200
      [] OTHER -> c.status

\* What the *WithStatus counterpart of the bare helper of call c yields when
\* called with the default status.
Counterpart(c) ==
    CASE c.op = "Error" -> {ErrorWithStatus(sink, log, 500, c.arg)}
      [] c.op = "InternalError" -> {InternalErrorWithStatus(sink, log, 500, c.arg)}
      [] c.op = "Json" -> {JsonWithStatus(sink, log, 200, d) : d \in Payloads}
      [] c.op = "Message" -> {MessageWithStatus(sink, log, 200, c.arg.text)}
      [] c.op = "OK" -> {JsonWithStatus(sink, log, 200, [ok |-> TRUE])}

====
